---- MODULE Spec2Model ----
(***************************************************************************)
(* The invocation frame stack of the Soroban host: push_frame, pop_frame,  *)
(* with_frame, the re-entrancy check and dispatch of call_n_internal, and  *)
(* the diagnostic event emitters, as a state machine over the host's       *)
(* shared state (context stack, storage map, event log, object store,      *)
(* budget, authorization manager).                                         *)
(***************************************************************************)
EXTENDS Integers, Sequences, FiniteSets, TLC

\* ------------------------------------------------------------------ bounds
MaxDepth == 2
MaxEvents == 3
MaxObjs == 11
MaxBudget == 3
MaxCalls == 1
MaxTrackers == 1
MaxHostFns == 2

\* ------------------------------------------------------------------ inputs
ContractIds == {"A", "B"}
Funcs == {"f", "__f"}
Keys == {"k"}
StoredVals == {"none", "v1"}
ReentryModes == {"Prohibited", "SelfAllowed", "Allowed"}
DiagnosticLevel == {"None", "Debug"}
RESERVED_CONTRACT_FN_PREFIX == <<"_", "_">>

VARIABLES
    context,            \* HostImpl::context, the stack of frames (top = last)
    storage,            \* HostImpl::storage.map
    events,             \* HostImpl::events.vec
    objects,            \* HostImpl::objects, the handle-indexed object store
    budget,             \* remaining metering budget
    auth,               \* HostImpl::authorization_manager
    diagnostic_level,   \* HostImpl::diagnostic_level
    contracts,          \* which ids have a registered native ContractFunctionSet
    cs,                 \* activations of with_frame / call_n_internal in progress
    pc,                 \* where control is: "idle", "body", "ret" or "abort"
    ret,                \* the last value returned by an operation of the host
    calls,              \* how many calls the embedder has made
    invocation          \* Host::invoke_functions in progress: how many of host_fns are
                        \* still to run and the results pushed to res so far

vars == <<context, storage, events, objects, budget, auth, diagnostic_level,
          contracts, cs, pc, ret, calls, invocation>>

\* ------------------------------------------------------------------ values
NoError == [type |-> "None", code |-> "None", msg |-> ""]
ScError(t, c, m) == [type |-> t, code |-> c, msg |-> m]
ContractError == ScError("Contract", "1", "")
BudgetError == ScError("Budget", "ExceededLimit", "")
AuthError == ScError("Auth", "InvalidAction", "")
ErrorUNKNOWN == ScError("Unknown", "General", "")
ErrCode(e) == [e EXCEPT !.msg = ""]

VoidVal == [tag |-> "Void", n |-> 0, s |-> "", e |-> NoError]
U32Val(n) == [tag |-> "U32", n |-> n, s |-> "", e |-> NoError]
SymbolVal(s) == [tag |-> "Symbol", n |-> 0, s |-> s, e |-> NoError]
ObjectVal(h) == [tag |-> "Object", n |-> h, s |-> "", e |-> NoError]
ErrorVal(e) == [tag |-> "Error", n |-> 0, s |-> "", e |-> e]

Ok(v) == [ok |-> TRUE, val |-> v, err |-> NoError]
Err(e) == [ok |-> FALSE, val |-> VoidVal, err |-> e]
\* a step of the host: the host state it leaves and the Result it returns
Step(h, res) == [h |-> h, res |-> res]

Last(s) == s[Len(s)]
Front(s) == SubSeq(s, 1, Len(s) - 1)

\* the host's shared state as one value; free is Budget's "enabled = false"
Host == [context |-> context, storage |-> storage, events |-> events,
         objects |-> objects, budget |-> budget, free |-> FALSE, auth |-> auth,
         diagnostic_level |-> diagnostic_level, contracts |-> contracts]

\* ------------------------------------------------------------------ sequencing
\* `let v = s;`: s is evaluated once and F applied to its value
Let(s, F(_)) == CHOOSE y \in {F(v) : v \in {s}} : TRUE
\* `let v = s?;`: a failed step s is returned as it is, F goes on from a good one
Try(s, F(_)) == Let(s, LAMBDA r : IF r.res.ok THEN F(r) ELSE Step(r.h, r.res))

\* ------------------------------------------------------------------ budget
\* Budget::charge: fails with the budget error when the budget is insufficient;
\* inside with_free_budget nothing is charged
charge_budget(h, n) ==
    IF h.free THEN Step(h, Ok(VoidVal))
    ELSE IF h.budget >= n THEN Step([h EXCEPT !.budget = @ - n], Ok(VoidVal))
    ELSE Step([h EXCEPT !.budget = 0], Err(BudgetError))

\* Budget::with_free_budget: runs F with metering suspended
with_free_budget(h, F(_)) ==
    Let(F([h EXCEPT !.free = TRUE]),
        LAMBDA r : Step([r.h EXCEPT !.free = h.free], r.res))

\* ------------------------------------------------------------------ object store
BytesObj(b) == [kind |-> "Bytes", bytes |-> b, vec |-> <<>>]
StringObj(b) == [kind |-> "String", bytes |-> b, vec |-> <<>>]
VecObj(v) == [kind |-> "Vec", bytes |-> "", vec |-> v]

\* Host::add_host_object: metered; appends the object and returns its handle
add_host_object(h, obj) ==
    Try(charge_budget(h, 1),
        LAMBDA c : Step([c.h EXCEPT !.objects = Append(@, obj)],
                        Ok(ObjectVal(Len(c.h.objects)))))

\* the object a handle refers to (handles count from 0)
visit_obj(objs, handle) == objs[handle + 1]

hash_to_bytesobj(h, hash) == add_host_object(h, BytesObj(hash))

\* ------------------------------------------------------------------ event log
InternalContractEvent(kind, type, contract_id, topics, data) ==
    [kind |-> kind, type |-> type, contract_id |-> contract_id,
     topics |-> topics, data |-> data]

\* InternalEventsBuffer::record: metered append at the end of the log
record(h, ev) ==
    Try(charge_budget(h, 1),
        LAMBDA c : Step([c.h EXCEPT !.events = Append(@, ev)], Ok(VoidVal)))

\* InternalEventsBuffer::rollback: truncates the log to its first n events
rollback(h, n) ==
    Step([h EXCEPT !.events = SubSeq(@, 1, IF n < Len(@) THEN n ELSE Len(@))],
         Ok(VoidVal))

record_system_debug_contract_event(h, type, contract_id, topics, data) ==
    record(h, InternalContractEvent("StructuredDebug", type, contract_id, topics, data))

\* ------------------------------------------------------------------ diagnostics
is_debug(h) == h.diagnostic_level = "Debug"

\* the contract id of the frame on top of the stack; "" is None
NoId == ""
get_current_contract_id_unmetered(h) ==
    IF Len(h.context) = 0 THEN NoId
    ELSE IF Last(h.context).kind = "HostFunction" THEN NoId
    ELSE Last(h.context).id

\* the handle of a new Bytes object holding the current contract id; Void is None
current_contract_bytesobject_option(h) ==
    IF get_current_contract_id_unmetered(h) # NoId
    THEN hash_to_bytesobj(h, get_current_contract_id_unmetered(h))
    ELSE Step(h, Ok(VoidVal))

err_diagnostics_body(h, error, msg, args) ==
    Try(current_contract_bytesobject_option(h), LAMBDA contract_id :
    Try(add_host_object(contract_id.h,
            VecObj(<<SymbolVal("error"), ErrorVal(ErrCode(error))>>)), LAMBDA topics :
    Try(add_host_object(topics.h, StringObj(msg)), LAMBDA m :
    Try(add_host_object(m.h, VecObj(<<m.res.val>> \o args)), LAMBDA data :
        record(data.h, InternalContractEvent("StructuredDebug", "Diagnostic",
                           contract_id.res.val, topics.res.val, data.res.val))))))

err_diagnostics(h, error, msg, args) ==
    IF ~is_debug(h) THEN Step(h, Ok(VoidVal))
    ELSE with_free_budget(h, LAMBDA g : err_diagnostics_body(g, error, msg, args))

fn_call_diagnostics_body(h, calling_contract, called_contract_id, func, args) ==
    Try(hash_to_bytesobj(h, called_contract_id), LAMBDA called :
    Try(add_host_object(called.h,
            VecObj(<<SymbolVal("fn_call"), called.res.val, SymbolVal(func)>>)), LAMBDA topics :
    Try(add_host_object(topics.h, VecObj(args)), LAMBDA data :
        record_system_debug_contract_event(data.h, "Diagnostic", calling_contract,
                                           topics.res.val, data.res.val))))

\* fn_call_diagnostics without the is_debug gate
fn_call_diagnostics_ungated(h, called_contract_id, func, args) ==
    Try(current_contract_bytesobject_option(h), LAMBDA calling_contract :
        with_free_budget(calling_contract.h,
            LAMBDA g : fn_call_diagnostics_body(g, calling_contract.res.val,
                                                called_contract_id, func, args)))

\* fn_call_diagnostics that attributes the event to the called contract
fn_call_diagnostics_by_callee(h, called_contract_id, func, args) ==
    IF ~is_debug(h) THEN Step(h, Ok(VoidVal))
    ELSE Try(hash_to_bytesobj(h, called_contract_id), LAMBDA calling_contract :
             with_free_budget(calling_contract.h,
                 LAMBDA g : fn_call_diagnostics_body(g, calling_contract.res.val,
                                                     called_contract_id, func, args)))

fn_call_diagnostics(h, called_contract_id, func, args) ==
    IF ~is_debug(h) THEN Step(h, Ok(VoidVal))
    ELSE Try(current_contract_bytesobject_option(h), LAMBDA calling_contract :
             with_free_budget(calling_contract.h,
                 LAMBDA g : fn_call_diagnostics_body(g, calling_contract.res.val,
                                                     called_contract_id, func, args)))

fn_return_diagnostics_body(h, contract_id, func, res) ==
    Try(hash_to_bytesobj(h, contract_id), LAMBDA cid :
    Try(add_host_object(cid.h,
            VecObj(<<SymbolVal("fn_return"), SymbolVal(func)>>)), LAMBDA topics :
        record_system_debug_contract_event(topics.h, "Diagnostic", cid.res.val,
                                           topics.res.val, res)))

fn_return_diagnostics(h, contract_id, func, res) ==
    IF ~is_debug(h) THEN Step(h, Ok(VoidVal))
    ELSE with_free_budget(h, LAMBDA g : fn_return_diagnostics_body(g, contract_id, func, res))

\* Host::error / Host::err: builds the HostError and, when diagnostics are
\* active, logs it into the event buffer (best effort)
error(h, e, msg, args) ==
    Step(err_diagnostics(h, e, msg, args).h, Err([e EXCEPT !.msg = msg]))

\* ------------------------------------------------------------------ frames
Frame(kind, id, func, args) == [kind |-> kind, id |-> id, func |-> func, args |-> args]
HostFunctionFrame(hf_type) == Frame("HostFunction", NoId, hf_type, <<>>)

NoAuthSnapshot == [some |-> FALSE, trackers |-> 0]
RollbackPoint(st, ev, au) == [storage |-> st, events |-> ev, auth |-> au]
EmptyStorage == [k \in Keys |-> "none"]
NoRollbackPoint == [some |-> FALSE, rp |-> RollbackPoint(EmptyStorage, 0, NoAuthSnapshot)]
SomeRollbackPoint(rp) == [some |-> TRUE, rp |-> rp]

\* a fatal abort (expect / assert_eq / a RefCell borrow that panics), not a HostError
Panic(msg) == ScError("Panic", "Abort", msg)
IsPanic(res) == ~res.ok /\ res.err.type = "Panic"

\* what push_frame / with_frame hand to the code that follows the push
Pushed(h, res, rp, start_depth) == [h |-> h, res |-> res, rp |-> rp, start_depth |-> start_depth]

\* push_frame that notifies the authorization manager and takes its snapshot
\* whether or not the manager is borrowed
push_frame_through_borrow(h, frame, auth_ok) ==
    IF ~auth_ok
    THEN Pushed(h, Err(AuthError), NoRollbackPoint.rp, 0)
    ELSE Let([h EXCEPT !.auth.frames = @ + 1], LAMBDA h1 :
         Let([h1 EXCEPT !.context = Append(@, frame)], LAMBDA h2 :
             Pushed(h2, Ok(VoidVal),
                    RollbackPoint(h2.storage, Len(h2.events),
                                  [some |-> TRUE, trackers |-> h1.auth.trackers]), 0)))

\* push_frame whose rollback point holds the length the Event Log will have
\* after one more event
push_frame_counting_ahead(h, frame, auth_ok) ==
    IF ~h.auth.borrowed /\ ~auth_ok
    THEN Pushed(h, Err(AuthError), NoRollbackPoint.rp, 0)
    ELSE Let(IF ~h.auth.borrowed THEN [h EXCEPT !.auth.frames = @ + 1] ELSE h, LAMBDA h1 :
         Let(IF ~h.auth.borrowed THEN [some |-> TRUE, trackers |-> h1.auth.trackers]
                                 ELSE NoAuthSnapshot, LAMBDA auth_snapshot :
         Let([h1 EXCEPT !.context = Append(@, frame)], LAMBDA h2 :
             Pushed(h2, Ok(VoidVal),
                    RollbackPoint(h2.storage, Len(h2.events) + 1, auth_snapshot), 0))))

\* Host::push_frame; auth_ok is the outcome of AuthorizationManager::push_frame
push_frame(h, frame, auth_ok) ==
    IF ~h.auth.borrowed /\ ~auth_ok
    THEN Pushed(h, Err(AuthError), NoRollbackPoint.rp, 0)
    ELSE Let(IF ~h.auth.borrowed THEN [h EXCEPT !.auth.frames = @ + 1] ELSE h, LAMBDA h1 :
         Let(IF ~h.auth.borrowed THEN [some |-> TRUE, trackers |-> h1.auth.trackers]
                                 ELSE NoAuthSnapshot, LAMBDA auth_snapshot :
         Let([h1 EXCEPT !.context = Append(@, frame)], LAMBDA h2 :
             Pushed(h2, Ok(VoidVal),
                    RollbackPoint(h2.storage, Len(h2.events), auth_snapshot), 0))))

\* a restoration that also empties the Object Store
pop_frame_rollback_dropping_objects(h, orp) ==
    IF ~orp.some THEN Step(h, Ok(VoidVal))
    ELSE Try(rollback([h EXCEPT !.storage = orp.rp.storage, !.objects = <<>>],
                      orp.rp.events), LAMBDA r :
             IF ~orp.rp.auth.some THEN r
             ELSE Step([r.h EXCEPT !.auth.trackers = orp.rp.auth.trackers], Ok(VoidVal)))

\* a restoration that empties the Event Log, whatever length the rollback point holds
pop_frame_rollback_whole_log(h, orp) ==
    IF ~orp.some THEN Step(h, Ok(VoidVal))
    ELSE Try(rollback([h EXCEPT !.storage = orp.rp.storage], 0), LAMBDA r :
             IF ~orp.rp.auth.some THEN r
             ELSE IF r.h.auth.borrowed THEN Step(r.h, Err(Panic("already borrowed")))
             ELSE Step([r.h EXCEPT !.auth.trackers = orp.rp.auth.trackers], Ok(VoidVal)))

\* the rollback at the end of pop_frame
pop_frame_rollback(h, orp) ==
    IF ~orp.some THEN Step(h, Ok(VoidVal))
    ELSE Try(rollback([h EXCEPT !.storage = orp.rp.storage], orp.rp.events), LAMBDA r :
             IF ~orp.rp.auth.some THEN r
             ELSE IF r.h.auth.borrowed THEN Step(r.h, Err(Panic("already borrowed")))
             ELSE Step([r.h EXCEPT !.auth.trackers = orp.rp.auth.trackers], Ok(VoidVal)))

\* pop_frame that returns the failure of the authorization manager before it
\* has popped the frame
pop_frame_auth_first(h, orp, emu_ok) ==
    IF Len(h.context) = 1 /\ h.auth.recording /\ ~emu_ok
    THEN Step(h, Err(AuthError))
    ELSE Let([h EXCEPT !.context = Front(h.context)], LAMBDA h1 :
         Let(IF h1.auth.borrowed THEN h1
             ELSE [h1 EXCEPT !.auth.frames = h.auth.frames - 1], LAMBDA h2 :
         IF Len(h2.context) = 0
         THEN pop_frame_rollback([h2 EXCEPT !.auth.frames = 0, !.auth.trackers = 0], orp)
         ELSE pop_frame_rollback(h2, orp)))

\* pop_frame that runs maybe_emulate_authentication after every pop
pop_frame_emulating_always(h, orp, emu_ok) ==
    IF Len(h.context) = 0 THEN Step(h, Err(Panic("unmatched host frame push/pop")))
    ELSE Let([h EXCEPT !.context = Front(@)], LAMBDA h1 :
         Let(IF ~h1.auth.borrowed
             THEN [h1 EXCEPT !.auth.frames = IF @ > 0 THEN @ - 1 ELSE 0]
             ELSE h1, LAMBDA h2 :
             IF h2.auth.recording /\ ~emu_ok THEN Step(h2, Err(AuthError))
             ELSE IF Len(h2.context) = 0
             THEN pop_frame_rollback(
                      [h2 EXCEPT !.auth.frames = 0, !.auth.trackers = 0], orp)
             ELSE pop_frame_rollback(h2, orp)))

\* pop_frame that notifies the authorization manager whether or not it is borrowed
pop_frame_notifying_always(h, orp, emu_ok) ==
    IF Len(h.context) = 0 THEN Step(h, Err(Panic("unmatched host frame push/pop")))
    ELSE Let([h EXCEPT !.context = Front(@)], LAMBDA h1 :
         Let([h1 EXCEPT !.auth.frames = IF @ > 0 THEN @ - 1 ELSE 0], LAMBDA h2 :
             IF Len(h2.context) = 0
             THEN IF h2.auth.borrowed THEN Step(h2, Err(Panic("already borrowed")))
                  ELSE IF h2.auth.recording /\ ~emu_ok THEN Step(h2, Err(AuthError))
                  ELSE pop_frame_rollback(
                           [h2 EXCEPT !.auth.frames = 0, !.auth.trackers = 0], orp)
             ELSE pop_frame_rollback(h2, orp)))

\* Host::pop_frame; emu_ok is the outcome of maybe_emulate_authentication
pop_frame(h, orp, emu_ok) ==
    IF Len(h.context) = 0 THEN Step(h, Err(Panic("unmatched host frame push/pop")))
    ELSE Let([h EXCEPT !.context = Front(@)], LAMBDA h1 :
         Let(IF ~h1.auth.borrowed
             THEN [h1 EXCEPT !.auth.frames = IF @ > 0 THEN @ - 1 ELSE 0]
             ELSE h1, LAMBDA h2 :
             IF Len(h2.context) = 0
             THEN IF h2.auth.borrowed THEN Step(h2, Err(Panic("already borrowed")))
                  ELSE IF h2.auth.recording /\ ~emu_ok THEN Step(h2, Err(AuthError))
                  ELSE pop_frame_rollback(
                           [h2 EXCEPT !.auth.frames = 0, !.auth.trackers = 0], orp)
             ELSE pop_frame_rollback(h2, orp)))

\* with_frame that pushes the frame before it charges the guard cost
with_frame_enter_push_first(h, frame, auth_ok) ==
    Let(push_frame(h, frame, auth_ok), LAMBDA p :
        IF ~p.res.ok THEN Pushed(p.h, p.res, p.rp, Len(h.context))
        ELSE Let(charge_budget(p.h, 1),
                 LAMBDA c : Pushed(c.h, c.res, p.rp, Len(h.context))))

\* Host::with_frame up to the call of the closure
with_frame_enter(h, frame, auth_ok) ==
    Let(charge_budget(h, 1), LAMBDA c :
        IF ~c.res.ok THEN Pushed(c.h, c.res, NoRollbackPoint.rp, Len(c.h.context))
        ELSE Let(push_frame(c.h, frame, auth_ok),
                 LAMBDA p : Pushed(p.h, p.res, p.rp, Len(c.h.context))))

\* the escalation of Ok(Error) to Err(Error) in with_frame
escalate(h, res) ==
    IF res.ok /\ res.val.tag = "Error"
    THEN error(h, res.val.e, "escalating Ok(Error) frame-exit to Err(Error)", <<>>)
    ELSE Step(h, res)

\* with_frame that pops with the rollback point whatever the closure returned
with_frame_exit_always_rollback(h, start_depth, rp, res, emu_ok) ==
    Let(escalate(h, res), LAMBDA esc :
    Try(pop_frame(esc.h, SomeRollbackPoint(rp), emu_ok), LAMBDA popped :
        Step(popped.h, esc.res)))

\* with_frame that pops without a rollback point whatever the closure returned
with_frame_exit_never_rollback(h, start_depth, rp, res, emu_ok) ==
    Let(escalate(h, res), LAMBDA esc :
    Try(pop_frame(esc.h, NoRollbackPoint, emu_ok), LAMBDA popped :
        Step(popped.h, esc.res)))

\* which pop Host::with_frame makes after its closure returned res, and whether it
\* succeeds
how_popped(h, rp, res, emu_ok) ==
    Let(escalate(h, res), LAMBDA esc :
        IF ~pop_frame(esc.h, IF esc.res.ok THEN NoRollbackPoint ELSE SomeRollbackPoint(rp),
                      emu_ok).res.ok
        THEN "failed"
        ELSE IF esc.res.ok THEN "commit" ELSE "rollback")

\* with_frame that pops once more after a rollback
with_frame_exit_popping_twice(h, start_depth, rp, res, emu_ok) ==
    Let(escalate(h, res), LAMBDA esc :
    Try(IF ~esc.res.ok
        THEN Try(pop_frame(esc.h, SomeRollbackPoint(rp), TRUE), LAMBDA once :
                 pop_frame(once.h, NoRollbackPoint, emu_ok))
        ELSE pop_frame(esc.h, NoRollbackPoint, emu_ok), LAMBDA popped :
        IF Len(popped.h.context) # start_depth
        THEN Step(popped.h, Err(Panic("assert_eq!(start_depth, end_depth)")))
        ELSE Step(popped.h, esc.res)))

\* Host::with_frame from the return of the closure (res) on
with_frame_exit(h, start_depth, rp, res, emu_ok) ==
    Let(escalate(h, res), LAMBDA esc :
    Try(IF ~esc.res.ok
        THEN pop_frame(esc.h, SomeRollbackPoint(rp), emu_ok)
        ELSE pop_frame(esc.h, NoRollbackPoint, emu_ok), LAMBDA popped :
        IF Len(popped.h.context) # start_depth
        THEN Step(popped.h, Err(Panic("assert_eq!(start_depth, end_depth)")))
        ELSE Step(popped.h, esc.res)))

\* ------------------------------------------------------------------ re-entrancy
SymbolStr(func) ==
    CASE func = "f" -> <<"f">>
      [] func = "__f" -> <<"_", "_", "f">>
      [] OTHER -> <<>>

starts_with(str, prefix) ==
    /\ Len(str) >= Len(prefix)
    /\ SubSeq(str, 1, Len(prefix)) = prefix

\* the scan of the context stack from the top down; TRUE when the call may proceed
RECURSIVE reentry_scan(_, _, _, _)
reentry_scan(ctx, id, reentry_mode, is_last_non_host_frame) ==
    IF Len(ctx) = 0 THEN TRUE
    ELSE LET f == Last(ctx)
         IN  IF f.kind = "HostFunction"
             THEN reentry_scan(Front(ctx), id, reentry_mode, is_last_non_host_frame)
             ELSE IF id = f.id
             THEN IF reentry_mode = "SelfAllowed" /\ is_last_non_host_frame
                  THEN reentry_scan(Front(ctx), id, reentry_mode, FALSE)
                  ELSE FALSE
             ELSE reentry_scan(Front(ctx), id, reentry_mode, FALSE)

\* the frames of contracts (all but HostFunction frames) and those of one id
ContractFrames(ctx) == {i \in DOMAIN ctx : ctx[i].kind # "HostFunction"}
FramesOf(ctx, id) == {i \in ContractFrames(ctx) : ctx[i].id = id}
IsTopContractFrame(ctx, i) == i \in ContractFrames(ctx) /\ \A j \in ContractFrames(ctx) : j <= i

\* a re-entrancy check that looks at the topmost contract frame only
reentry_check_top_frame_only(h, id, reentry_mode) ==
    \/ reentry_mode # "Prohibited"
    \/ \A i \in FramesOf(h.context, id) : ~IsTopContractFrame(h.context, i)

\* a re-entrancy check whose SelfAllowed mode accepts a single earlier frame of
\* the target wherever it is on the stack
reentry_check_self_anywhere(h, id, reentry_mode) ==
    \/ reentry_mode = "Allowed"
    \/ reentry_mode = "SelfAllowed" /\ Cardinality(FramesOf(h.context, id)) <= 1
    \/ reentry_mode = "Prohibited" /\ FramesOf(h.context, id) = {}

\* a re-entrancy check whose SelfAllowed mode looks at the topmost contract frame
\* only and accepts the target there, whatever lies below
reentry_check_self_on_top(h, id, reentry_mode) ==
    \/ reentry_mode = "Allowed"
    \/ reentry_mode = "SelfAllowed" /\ \E i \in FramesOf(h.context, id) : IsTopContractFrame(h.context, i)
    \/ reentry_scan(h.context, id, reentry_mode, TRUE)

reentry_check(h, id, reentry_mode) ==
    reentry_mode = "Allowed" \/ reentry_scan(h.context, id, reentry_mode, TRUE)

\* ------------------------------------------------------------------ current frame
HashVal(id) == [tag |-> "Hash", n |-> 0, s |-> id, e |-> NoError]
NoContractRunning == "no contract running"
NoContractIdMsg == "Current context has no contract ID"

\* with_current_frame that answers Ok with a default on an empty stack
with_current_frame_defaulting(h) == Step(h, Ok(VoidVal))

\* Host::with_current_frame up to the call of its closure: fails when the stack
\* is empty
with_current_frame(h) ==
    IF Len(h.context) = 0
    THEN error(h, ScError("Context", "MissingValue", ""), NoContractRunning, <<>>)
    ELSE Step(h, Ok(VoidVal))

\* Host::get_current_contract_id_opt_internal; Ok(Void) is Ok(None)
get_current_contract_id_opt_internal(h) ==
    Try(with_current_frame(h), LAMBDA f :
        IF Len(f.h.context) = 0 \/ Last(f.h.context).kind = "HostFunction"
        THEN Step(f.h, Ok(VoidVal))
        ELSE IF Last(f.h.context).kind = "TestContract"
        THEN Step(f.h, Ok(HashVal(Last(f.h.context).id)))
        ELSE Try(charge_budget(f.h, 1),
                 LAMBDA c : Step(c.h, Ok(HashVal(Last(c.h.context).id)))))

\* Host::get_current_contract_id_internal
get_current_contract_id_internal(h) ==
    Try(get_current_contract_id_opt_internal(h), LAMBDA o :
        IF o.res.val = VoidVal
        THEN error(o.h, ScError("Context", "MissingValue", ""), NoContractIdMsg, <<>>)
        ELSE o)

\* ------------------------------------------------------------------ dispatch
\* the state an operation was called in, kept until it returns
Entry(h) == [storage |-> h.storage, events |-> h.events, depth |-> Len(h.context),
             objects |-> Len(h.objects), budget |-> h.budget, auth |-> h.auth]
NoEntry == [storage |-> EmptyStorage, events |-> <<>>, depth |-> 0, objects |-> 0,
            budget |-> 0,
            auth |-> [frames |-> 0, trackers |-> 0, borrowed |-> FALSE, recording |-> FALSE]]

\* what call_n_internal has done when control leaves this part of it: stage is
\* "policy" (a check rejected the call), "diag" (fn_call_diagnostics failed),
\* "frame" (with_frame failed before the target ran) or "entered" (the target's
\* code runs in its frame); at_frame is the state in which with_frame was called
Entered(h, res, stage, kind, rp, start_depth, at_frame) ==
    [h |-> h, res |-> res, stage |-> stage, kind |-> kind, rp |-> rp,
     start_depth |-> start_depth, at_frame |-> at_frame]
NotEntered(s, stage) == Entered(s.h, s.res, stage, "", NoRollbackPoint.rp, 0, NoEntry)

\* the executable of a contract id: a registered native test contract, else the
\* built-in token
frame_kind(h, id) == IF id \in h.contracts THEN "TestContract" ELSE "Token"

ReservedMsg == "can't invoke a reserved function directly"
ReentryMsg == "Contract re-entry is not allowed"

\* call_n_internal that emits the fn_call diagnostic after the callee's frame is
\* pushed
call_n_internal_enter_diag_in_frame(h, id, func, args, reentry_mode, internal_host_call, auth_ok) ==
    IF ~internal_host_call /\ starts_with(SymbolStr(func), RESERVED_CONTRACT_FN_PREFIX)
    THEN NotEntered(error(h, ScError("Context", "InvalidAction", ""), ReservedMsg,
                          <<SymbolVal(func)>>), "policy")
    ELSE IF ~reentry_check(h, id, reentry_mode)
    THEN NotEntered(error(h, ScError("Context", "InvalidAction", ""), ReentryMsg, <<>>),
                    "policy")
    ELSE Let(with_frame_enter(h, Frame(frame_kind(h, id), id, func, args), auth_ok),
             LAMBDA w :
                 IF ~w.res.ok
                 THEN Entered(w.h, w.res, "frame", frame_kind(h, id), w.rp, w.start_depth,
                              Entry(h))
                 ELSE Entered(fn_call_diagnostics(w.h, id, func, args).h, w.res, "entered",
                              frame_kind(h, id), w.rp, w.start_depth, Entry(h)))

\* call_n_internal that makes the re-entrancy check before the reserved-name check
call_n_internal_enter_reentry_first(h, id, func, args, reentry_mode, internal_host_call, auth_ok) ==
    IF ~reentry_check(h, id, reentry_mode)
    THEN NotEntered(error(h, ScError("Context", "InvalidAction", ""), ReentryMsg, <<>>),
                    "policy")
    ELSE IF ~internal_host_call /\ starts_with(SymbolStr(func), RESERVED_CONTRACT_FN_PREFIX)
    THEN NotEntered(error(h, ScError("Context", "InvalidAction", ""), ReservedMsg,
                          <<SymbolVal(func)>>), "policy")
    ELSE Let(fn_call_diagnostics(h, id, func, args), LAMBDA d :
             IF ~d.res.ok THEN NotEntered(d, "diag")
             ELSE Let(with_frame_enter(d.h, Frame(frame_kind(h, id), id, func, args), auth_ok),
                      LAMBDA w : Entered(w.h, w.res, IF w.res.ok THEN "entered" ELSE "frame",
                                         frame_kind(h, id), w.rp, w.start_depth, Entry(d.h))))

\* Host::call_n_internal up to the call of the target's code: the reserved-name
\* check, the re-entrancy check, fn_call_diagnostics and, through with_frame
\* (a registered test contract) or call_contract_fn (the built-in token), the
\* push of the callee's frame
call_n_internal_enter(h, id, func, args, reentry_mode, internal_host_call, auth_ok) ==
    IF ~internal_host_call /\ starts_with(SymbolStr(func), RESERVED_CONTRACT_FN_PREFIX)
    THEN NotEntered(error(h, ScError("Context", "InvalidAction", ""), ReservedMsg,
                          <<SymbolVal(func)>>), "policy")
    ELSE IF ~reentry_check(h, id, reentry_mode)
    THEN NotEntered(error(h, ScError("Context", "InvalidAction", ""), ReentryMsg, <<>>),
                    "policy")
    ELSE Let(fn_call_diagnostics(h, id, func, args), LAMBDA d :
             IF ~d.res.ok THEN NotEntered(d, "diag")
             ELSE Let(with_frame_enter(d.h, Frame(frame_kind(h, id), id, func, args), auth_ok),
                      LAMBDA w : Entered(w.h, w.res, IF w.res.ok THEN "entered" ELSE "frame",
                                         frame_kind(h, id), w.rp, w.start_depth, Entry(d.h))))

\* a closure of the TestContract frame that leaves the fn_return diagnostic to
\* the code that follows the pop
test_contract_closure_without_fn_return(h, id, func, out) ==
    IF out.kind = "some"
    THEN Step(h, Ok(out.val))
    ELSE IF out.kind = "none"
    THEN error(h, ScError("Context", "MissingValue", ""),
               "calling unknown contract function", <<SymbolVal(func)>>)
    ELSE Let(IF out.cell = NoError /\ is_debug(h) /\ out.str
             THEN error(h, ErrorUNKNOWN, "caught panic from contract function", <<>>)
             ELSE Step(h, Err(IF out.cell # NoError THEN out.cell ELSE ErrorUNKNOWN)),
             LAMBDA logged : error(logged.h, ErrCode(logged.res.err),
                                   "caught error from function", <<>>))

\* the closure call_n_internal runs in a TestContract frame, from the return of
\* the native function on: out.kind is "some" (a value), "none" (no such
\* function) or "panic" (out.cell: the error recorded in the frame's panic cell,
\* out.str: whether the panic payload is a string)
test_contract_closure(h, id, func, out) ==
    IF out.kind = "some"
    THEN Try(fn_return_diagnostics(h, id, func, out.val),
             LAMBDA d : Step(d.h, Ok(out.val)))
    ELSE IF out.kind = "none"
    THEN error(h, ScError("Context", "MissingValue", ""),
               "calling unknown contract function", <<SymbolVal(func)>>)
    ELSE Let(IF out.cell = NoError /\ is_debug(h) /\ out.str
             THEN error(h, ErrorUNKNOWN, "caught panic from contract function", <<>>)
             ELSE Step(h, Err(IF out.cell # NoError THEN out.cell ELSE ErrorUNKNOWN)),
             LAMBDA logged : error(logged.h, ErrCode(logged.res.err),
                                   "caught error from function", <<>>))

\* Host::call_n_internal after call_contract_fn has returned res
call_n_internal_tail(h, kind, id, func, res) ==
    IF kind = "TestContract" THEN Step(h, res)
    ELSE IF res.ok
    THEN Try(fn_return_diagnostics(h, id, func, res.val), LAMBDA d : Step(d.h, res))
    ELSE Step(h, res)

\* ------------------------------------------------------------------ control
\* an activation of with_frame (its closure is running) or of call_n_internal
\* (waiting for call_contract_fn / with_frame to return); entry is the state in
\* which it was called, inner whether a call made by its closure has entered a
\* frame and returned Ok, absorbed whether its closure went on after a call it
\* made had entered a frame and failed, borrow whether the caller holds the
\* mutable borrow of the authorization manager for the duration of the call
Activation(fn, kind, id, func, start_depth, rp, entry) ==
    [fn |-> fn, kind |-> kind, id |-> id, func |-> func,
     start_depth |-> start_depth, rp |-> rp, entry |-> entry,
     inner |-> FALSE, absorbed |-> FALSE, borrow |-> FALSE]

\* the return of an operation: its Result, the Result of its closure (body), the
\* step that decided it (stage), the state at entry and the state in which the
\* closure returned, the activation's inner and absorbed, and how with_frame
\* popped the frame (popped: "commit", "rollback", "failed" when pop_frame failed,
\* else "none")
Return(fn, kind, id, func, mode, res, body, stage, entry, at_body, inner) ==
    [fn |-> fn, kind |-> kind, id |-> id, func |-> func, mode |-> mode, res |-> res,
     body |-> body, stage |-> stage, entry |-> entry, at_body |-> at_body,
     inner |-> inner, absorbed |-> FALSE, popped |-> "none"]
NoInner == FALSE
NoReturn == Return("none", "", NoId, "", "", Ok(VoidVal), Ok(VoidVal), "", NoEntry, NoEntry,
                   NoInner)

ArgLists == {<<U32Val(7)>>}
RetVals == {U32Val(1), ErrorVal(ContractError)}

NoInvocation == [host_fns |-> 0, res |-> <<>>]

Init ==
    /\ context = <<>>
    /\ storage = EmptyStorage
    /\ events = <<>>
    /\ objects = <<>>
    /\ budget = MaxBudget
    /\ auth = [frames |-> 0, trackers |-> 0, borrowed |-> FALSE, recording |-> TRUE]
    /\ diagnostic_level \in DiagnosticLevel
    /\ contracts = {"A"}
    /\ cs = <<>>
    /\ pc = "idle"
    /\ ret = NoReturn
    /\ calls = 0
    /\ invocation = NoInvocation

\* the host state h becomes the state, within the bounds of the model
SetHost(h) ==
    /\ Len(h.context) <= MaxDepth
    /\ Len(h.events) <= MaxEvents
    /\ Len(h.objects) <= MaxObjs
    /\ context' = h.context
    /\ storage' = h.storage
    /\ events' = h.events
    /\ objects' = h.objects
    /\ budget' = h.budget
    /\ auth' = h.auth
    /\ diagnostic_level' = h.diagnostic_level
    /\ contracts' = h.contracts

TopAct == Last(cs)
InBody == pc = "body" /\ Len(cs) > 0 /\ TopAct.fn = "with_frame"
             /\ TopAct.kind \in {"TestContract", "Token"}

\* the caller's mutable borrow of the authorization manager ends
release(h, borrow) == IF borrow THEN [h EXCEPT !.auth.borrowed = FALSE] ELSE h

\* call_n_internal is called in host state h, on top of the activations in stack,
\* by a caller that holds the borrow of the authorization manager (borrow) or not
EnterCallAs(stack, h, id, func, args, reentry_mode, internal_host_call, auth_ok, borrow) ==
    \E c \in {call_n_internal_enter(h, id, func, args, reentry_mode,
                                    internal_host_call, auth_ok)} :
        /\ SetHost(IF c.stage \in {"policy", "diag"} THEN release(c.h, borrow) ELSE c.h)
        /\ IF c.stage = "entered"
           THEN /\ cs' = stack \o <<[Activation("call_n_internal", c.kind, id, func, 0,
                                                NoRollbackPoint.rp, Entry(h))
                                     EXCEPT !.borrow = borrow],
                                    Activation("with_frame", c.kind, id, func,
                                               c.start_depth, c.rp, c.at_frame)>>
                /\ pc' = "body"
                /\ ret' = NoReturn
           ELSE IF c.stage = "frame"
           THEN /\ cs' = stack \o <<[Activation("call_n_internal", c.kind, id, func, 0,
                                                NoRollbackPoint.rp, Entry(h))
                                     EXCEPT !.borrow = borrow]>>
                /\ pc' = "ret"
                /\ ret' = Return("with_frame", c.kind, id, func, "", c.res, c.res, "frame",
                                 c.at_frame, Entry(c.h), NoInner)
           ELSE /\ cs' = stack
                /\ pc' = "ret"
                /\ ret' = Return("call_n_internal", c.kind, id, func, reentry_mode,
                                 c.res, c.res, c.stage, Entry(h), Entry(c.h), NoInner)

EnterCall(stack, h, id, func, args, reentry_mode, internal_host_call, auth_ok) ==
    EnterCallAs(stack, h, id, func, args, reentry_mode, internal_host_call, auth_ok, FALSE)

\* a call of Host::call_n_internal, by the embedder (empty stack) or by the
\* code running in the current frame
Dispatch(id, func, args, reentry_mode, internal_host_call, auth_ok) ==
    /\ IF pc = "idle" THEN calls < MaxCalls ELSE InBody
    /\ calls' = IF pc = "idle" THEN calls + 1 ELSE calls
    /\ UNCHANGED invocation
    /\ EnterCall(cs, Host, id, func, args, reentry_mode, internal_host_call, auth_ok)

\* AuthorizationManager::require_auth for an address that is a contract, called
\* by the code of the current frame: the manager, holding its mutable borrow,
\* charges for its work, records the authorization and calls the reserved
\* function of the account contract id through call_n_internal with
\* internal_host_call = true
RequireAuth(id, func, args, auth_ok) ==
    /\ InBody
    /\ ~auth.borrowed
    /\ auth.trackers < MaxTrackers
    /\ starts_with(SymbolStr(func), RESERVED_CONTRACT_FN_PREFIX)
    /\ \E c \in {charge_budget(Host, 1)} :
           IF ~c.res.ok
           THEN /\ SetHost(c.h)
                /\ pc' = "ret"
                /\ ret' = Return("require_auth", "", id, func, "", c.res, c.res, "charge",
                                 Entry(Host), Entry(c.h), NoInner)
                /\ UNCHANGED cs
           ELSE EnterCallAs(cs, [c.h EXCEPT !.auth.borrowed = TRUE, !.auth.trackers = @ + 1],
                            id, func, args, "Prohibited", TRUE, auth_ok, TRUE)
    /\ UNCHANGED <<calls, invocation>>

\* a call of Host::get_current_contract_id_internal, by the embedder (empty
\* stack) or by the code running in the current frame
GetCurrentContractId ==
    /\ IF pc = "idle" THEN calls < MaxCalls ELSE InBody
    /\ calls' = IF pc = "idle" THEN calls + 1 ELSE calls
    /\ UNCHANGED invocation
    /\ \E q \in {get_current_contract_id_internal(Host)} :
           /\ SetHost(q.h)
           /\ pc' = "ret"
           /\ ret' = Return("get_current_contract_id_internal", "", NoId, "", "", q.res,
                            q.res, "query", Entry(Host), Entry(q.h), NoInner)
    /\ UNCHANGED cs

\* the code of the current frame writes a ledger entry
BodyPut(k, v) ==
    /\ InBody
    /\ storage' = [storage EXCEPT ![k] = v]
    /\ UNCHANGED <<context, events, objects, budget, auth, diagnostic_level, contracts,
                   cs, pc, ret, calls, invocation>>

\* the code of the current frame records a contract event
BodyEvent ==
    /\ InBody
    /\ \E r \in {record(Host, InternalContractEvent("Contract", "Contract", VoidVal,
                                                    VoidVal, U32Val(1)))} :
           /\ r.res.ok
           /\ SetHost(r.h)
    /\ UNCHANGED <<cs, pc, ret, calls, invocation>>

\* the end of with_frame for activation a: its closure has returned res in host
\* state h; stack is what remains of cs
ExitFrameOf(a, h, res, emu_ok, stack) ==
    \E w \in {with_frame_exit(h, a.start_depth, a.rp, res, emu_ok)} :
        /\ SetHost(w.h)
        /\ cs' = stack
        /\ pc' = IF IsPanic(w.res) THEN "abort" ELSE "ret"
        /\ ret' = [Return("with_frame", a.kind, a.id, a.func, "", w.res, res, "body",
                          a.entry, Entry(h), a.inner)
                   EXCEPT !.popped = how_popped(h, a.rp, res, emu_ok),
                          !.absorbed = a.absorbed]

ExitFrame(h, res, emu_ok) == ExitFrameOf(TopAct, h, res, emu_ok, Front(cs))

\* Host::invoke_function_raw for HostFunctionArgs::InvokeContract: a HostFunction
\* frame whose closure makes the contract id an object and calls call_n in mode
\* Prohibited
InvokeContract(id, func, args, auth_ok, auth_ok2, emu_ok) ==
    /\ \E w \in {with_frame_enter(Host, HostFunctionFrame("InvokeContract"), auth_ok)} :
       \E a \in {Activation("with_frame", "HostFunction", NoId, "InvokeContract",
                            w.start_depth, w.rp, Entry(Host))} :
       \E o \in {add_host_object(w.h, BytesObj(id))} :
           IF ~w.res.ok
           THEN /\ SetHost(w.h)
                /\ UNCHANGED cs
                /\ pc' = "ret"
                /\ ret' = Return("with_frame", "HostFunction", NoId, "InvokeContract", "",
                                 w.res, w.res, "frame", Entry(Host), Entry(w.h), NoInner)
           ELSE IF ~o.res.ok THEN ExitFrameOf(a, o.h, o.res, emu_ok, cs)
           ELSE EnterCall(cs \o <<a>>, o.h, id, func, args, "Prohibited", FALSE, auth_ok2)

\* invoke_function_raw has just returned to the loop of Host::invoke_functions
HostFunctionReturned ==
    pc = "ret" /\ Len(cs) = 0 /\ ret.fn = "with_frame" /\ ret.kind = "HostFunction"

\* Host::invoke_functions, called by the embedder with a list of n host functions
\* (the authorization manager is in recording mode): an empty list returns at
\* once, else the first function runs
InvokeFunctions(n, id, func, args, auth_ok, auth_ok2, emu_ok) ==
    /\ pc = "idle"
    /\ calls < MaxCalls
    /\ calls' = calls + 1
    /\ IF n = 0
       THEN /\ SetHost(Host)
            /\ pc' = "ret"
            /\ ret' = Return("invoke_functions", "HostFunction", NoId, "", "", Ok(VoidVal),
                             Ok(VoidVal), "", Entry(Host), Entry(Host), NoInner)
            /\ UNCHANGED <<cs, invocation>>
       ELSE /\ invocation' = [host_fns |-> n - 1, res |-> <<>>]
            /\ InvokeContract(id, func, args, auth_ok, auth_ok2, emu_ok)

\* the loop of Host::invoke_functions after a host function has returned Ok: its
\* value is pushed to res and the next function of the list runs
InvokeNextFunction(id, func, args, auth_ok, auth_ok2, emu_ok) ==
    /\ HostFunctionReturned
    /\ ret.res.ok
    /\ invocation.host_fns > 0
    /\ invocation' = [host_fns |-> invocation.host_fns - 1,
                      res |-> Append(invocation.res, ret.res.val)]
    /\ InvokeContract(id, func, args, auth_ok, auth_ok2, emu_ok)
    /\ UNCHANGED calls

\* invoke_functions that hands back the results gathered before the failure
InvokeFunctionsReturn_with_partial_results ==
    /\ HostFunctionReturned
    /\ ~ret.res.ok \/ invocation.host_fns = 0
    /\ invocation' = [invocation EXCEPT
                          !.res = IF ret.res.ok THEN Append(@, ret.res.val) ELSE @]
    /\ ret' = [ret EXCEPT !.fn = "invoke_functions"]
    /\ UNCHANGED <<context, storage, events, objects, budget, auth, diagnostic_level,
                   contracts, cs, pc, calls>>

\* Host::invoke_functions returns: the error of the host function that failed
\* (the ? operator; res is dropped and the rest of host_fns does not run), or res
\* once the list is exhausted; ret keeps the record of the last host function
InvokeFunctionsReturn ==
    /\ HostFunctionReturned
    /\ ~ret.res.ok \/ invocation.host_fns = 0
    /\ invocation' = [invocation EXCEPT
                          !.res = IF ret.res.ok THEN Append(@, ret.res.val) ELSE <<>>]
    /\ ret' = [ret EXCEPT !.fn = "invoke_functions"]
    /\ UNCHANGED <<context, storage, events, objects, budget, auth, diagnostic_level,
                   contracts, cs, pc, calls>>

\* the closure of the HostFunction frame returns what call_n returned
HostFunctionExit(emu_ok) ==
    /\ pc = "ret"
    /\ Len(cs) > 0
    /\ TopAct.fn = "with_frame"
    /\ TopAct.kind = "HostFunction"
    /\ ret.fn = "call_n_internal"
    /\ ExitFrame(Host, ret.res, emu_ok)
    /\ UNCHANGED <<calls, invocation>>

\* the native function of a registered test contract returns, finds no function
\* or panics
TestContractExit(out, emu_ok) ==
    /\ InBody
    /\ TopAct.kind = "TestContract"
    /\ \E c \in {test_contract_closure(Host, TopAct.id, TopAct.func, out)} :
           ExitFrame(c.h, c.res, emu_ok)
    /\ UNCHANGED <<calls, invocation>>

\* the built-in token contract returns res
TokenExit(res, emu_ok) ==
    /\ InBody
    /\ TopAct.kind = "Token"
    /\ ExitFrame(Host, res, emu_ok)
    /\ UNCHANGED <<calls, invocation>>

\* the code of the current frame (or the embedder) takes the Result of the call
\* it made and goes on
Resume ==
    /\ pc = "ret"
    /\ IF Len(cs) = 0 THEN ~HostFunctionReturned
       ELSE TopAct.fn = "with_frame" /\ TopAct.kind \in {"TestContract", "Token"}
    /\ pc' = IF Len(cs) = 0 THEN "idle" ELSE "body"
    /\ invocation' = IF Len(cs) = 0 THEN NoInvocation ELSE invocation
    /\ ret' = NoReturn
    /\ cs' = IF Len(cs) > 0 /\ ret.stage = "body"
             THEN IF ret.res.ok THEN [cs EXCEPT ![Len(cs)].inner = TRUE]
                  ELSE [cs EXCEPT ![Len(cs)].absorbed = TRUE]
             ELSE cs
    /\ UNCHANGED <<context, storage, events, objects, budget, auth, diagnostic_level,
                   contracts, calls>>

\* the built-in token contract returns the error of the call it made (the ? operator)
TokenPropagate(emu_ok) ==
    /\ pc = "ret"
    /\ Len(cs) > 0
    /\ TopAct.fn = "with_frame"
    /\ TopAct.kind = "Token"
    /\ ~ret.res.ok
    /\ ExitFrame(Host, ret.res, emu_ok)
    /\ UNCHANGED <<calls, invocation>>

\* call_n_internal returns what with_frame / call_contract_fn returned
CallReturn ==
    /\ pc = "ret"
    /\ Len(cs) > 0
    /\ TopAct.fn = "call_n_internal"
    /\ \E t \in {call_n_internal_tail(Host, TopAct.kind, TopAct.id, TopAct.func, ret.res)} :
           /\ SetHost(release(t.h, TopAct.borrow))
           /\ cs' = Front(cs)
           /\ pc' = "ret"
           /\ ret' = [Return("call_n_internal", TopAct.kind, TopAct.id, TopAct.func, "",
                             t.res, ret.res, ret.stage, TopAct.entry, ret.at_body, NoInner)
                      EXCEPT !.popped = ret.popped]
    /\ UNCHANGED <<calls, invocation>>

TestOutcomes ==
    {[kind |-> "some", val |-> v, cell |-> NoError, str |-> FALSE] : v \in RetVals}
    \cup {[kind |-> "none", val |-> VoidVal, cell |-> NoError, str |-> FALSE]}
    \cup {[kind |-> "panic", val |-> VoidVal, cell |-> c, str |-> s] :
              c \in {NoError, ContractError}, s \in BOOLEAN}

\* what the token's code may return of its own: a value or an error
TokenResults == {Ok(v) : v \in RetVals} \cup {Err(ContractError)}

Next ==
    \/ \E id \in ContractIds, func \in Funcs, args \in ArgLists, m \in ReentryModes,
          internal \in BOOLEAN, auth_ok \in BOOLEAN :
           Dispatch(id, func, args, m, internal, auth_ok)
    \/ \E n \in 0..MaxHostFns, id \in ContractIds, func \in Funcs, args \in ArgLists,
          auth_ok \in BOOLEAN, auth_ok2 \in BOOLEAN, emu_ok \in BOOLEAN :
           InvokeFunctions(n, id, func, args, auth_ok, auth_ok2, emu_ok)
    \/ \E id \in ContractIds, func \in Funcs, args \in ArgLists,
          auth_ok \in BOOLEAN, auth_ok2 \in BOOLEAN, emu_ok \in BOOLEAN :
           InvokeNextFunction(id, func, args, auth_ok, auth_ok2, emu_ok)
    \/ InvokeFunctionsReturn
    \/ \E emu_ok \in BOOLEAN : HostFunctionExit(emu_ok)
    \/ \E k \in Keys, v \in StoredVals : BodyPut(k, v)
    \/ BodyEvent
    \/ \E out \in TestOutcomes, emu_ok \in BOOLEAN : TestContractExit(out, emu_ok)
    \/ \E res \in TokenResults, emu_ok \in BOOLEAN : TokenExit(res, emu_ok)
    \/ \E emu_ok \in BOOLEAN : TokenPropagate(emu_ok)
    \/ \E id \in ContractIds, func \in Funcs, args \in ArgLists, auth_ok \in BOOLEAN :
           RequireAuth(id, func, args, auth_ok)
    \/ GetCurrentContractId
    \/ CallReturn
    \/ Resume

Spec == Init /\ [][Next]_vars

\* ------------------------------------------------------------------ guarded scopes
\* with_frame has just returned to its caller
WithFrameReturned == pc = "ret" /\ ret.fn = "with_frame"

\* the Storage Map and the length of the Event Log are those of entry e
RestoredTo(e) == storage = e.storage /\ Len(events) = Len(e.events)

\* C1: whenever with_frame returns a failure (the body failed, its value was
\* escalated, or a step of the pop failed) the Storage Map and the length of the
\* Event Log equal their values at entry to with_frame
C1_FailureRestoresEntryState ==
    (WithFrameReturned /\ ~ret.res.ok) => RestoredTo(ret.entry)

\* C2: when a with_frame returns, the depth of the frame stack equals the depth
\* at its entry, whatever mix of successes and failures occurred inside and
\* whether the guard charge, the push or the pop failed; the depth assertion of
\* with_frame never fires
C2_StackBalance ==
    /\ WithFrameReturned => Len(context) = ret.entry.depth
    /\ (pc = "abort" /\ ret.fn = "with_frame") => ret.res.err.msg # "assert_eq!(start_depth, end_depth)"
    /\ pc = "idle" => Len(context) = 0

\* an outermost with_frame whose closure made a nested call that committed
\* returned a failure of the pop
C2_Witness ==
    /\ WithFrameReturned
    /\ ret.stage = "body" /\ ret.body.ok /\ ~ret.res.ok
    /\ ret.inner
    /\ ret.entry.depth = 0

\* the outcomes of with_frame for a closure that returns Ok(Error e) and for one
\* that returns Err(e), from the current state on
ExitEscalated(e, emu_ok) ==
    with_frame_exit(Host, TopAct.start_depth, TopAct.rp, Ok(ErrorVal(e)), emu_ok)
ExitFailed(e, emu_ok) ==
    with_frame_exit(Host, TopAct.start_depth, TopAct.rp, Err(e), emu_ok)

\* C3: a closure that returns Ok(v) with v an Error value makes with_frame pop
\* the frame with the rollback point and return Err; the Storage Map, the length
\* of the Event Log and the depth of the stack are then the same as if the
\* closure had returned Err directly
C3_EscalationEqualsFailure ==
    /\ (WithFrameReturned /\ ret.body.ok /\ ret.body.val.tag = "Error") => ~ret.res.ok
    /\ InBody =>
         \A emu_ok \in BOOLEAN : \A e \in {ContractError, ErrorUNKNOWN} :
         \E a \in {ExitEscalated(e, emu_ok)} : \E b \in {ExitFailed(e, emu_ok)} :
             /\ ~a.res.ok /\ ~b.res.ok
             /\ a.h.storage = b.h.storage
             /\ Len(a.h.events) = Len(b.h.events)
             /\ Len(a.h.context) = Len(b.h.context)

\* C4: frames C1 then C2 nested through with_frame: when the closure of C2
\* succeeds (C2 commits) and the closure of C1 then fails, the Storage Map and
\* the length of the Event Log after C1's with_frame has returned equal the
\* values captured when C1 was pushed
C4_OuterFailureUndoesInnerCommit ==
    (WithFrameReturned /\ ret.stage = "body" /\ ret.inner /\ ~ret.body.ok)
        => RestoredTo(ret.entry)

\* ------------------------------------------------------------------ re-entrancy policy
\* call_n_internal has just returned without having called with_frame; the frame
\* stack is the one it was called on
DispatchRefused == pc = "ret" /\ ret.fn = "call_n_internal" /\ ret.stage \in {"policy", "diag"}

PolicyError == ScError("Context", "InvalidAction", "")
Reserved(func) == starts_with(SymbolStr(func), RESERVED_CONTRACT_FN_PREFIX)

IsFnCallEvent(ev) ==
    /\ ev.topics.tag = "Object"
    /\ visit_obj(objects, ev.topics.n).kind = "Vec"
    /\ Len(visit_obj(objects, ev.topics.n).vec) > 0
    /\ visit_obj(objects, ev.topics.n).vec[1] = SymbolVal("fn_call")
NoFnCallSince(e) ==
    \A i \in (Len(e.events) + 1)..Len(events) : ~IsFnCallEvent(events[i])

\* C5: a dispatch in mode Prohibited whose target id is the id of any
\* non-HostFunction frame on the stack returns the re-entrancy error (Context,
\* InvalidAction), pushes no frame and records no fn_call diagnostic; when the
\* target id is the id of no frame, the re-entrancy check passes
C5_ProhibitedReentry ==
    /\ \A id \in ContractIds :
           reentry_check(Host, id, "Prohibited") <=> FramesOf(context, id) = {}
    /\ (DispatchRefused /\ ret.mode = "Prohibited" /\ FramesOf(context, ret.id) # {}) =>
           /\ ret.stage = "policy"
           /\ ~ret.res.ok /\ ErrCode(ret.res.err) = PolicyError
           /\ ~Reserved(ret.func) => ret.res.err.msg = ReentryMsg
           /\ Len(context) = ret.entry.depth
           /\ NoFnCallSince(ret.entry)
    /\ (DispatchRefused /\ ret.mode = "Prohibited" /\ FramesOf(context, ret.id) = {}) =>
           ret.res.err.msg # ReentryMsg

\* with diagnostics on, contract A called B and B's call of A in mode Prohibited
\* has been refused
C5_Witness ==
    /\ DispatchRefused /\ ret.mode = "Prohibited" /\ ret.res.err.msg = ReentryMsg
    /\ diagnostic_level = "Debug"
    /\ Len(context) >= 2
    /\ Last(context).id # ret.id
    /\ FramesOf(context, ret.id) # {}

\* SelfAllowed admits the target: its id is in no contract frame, or in exactly
\* one and that one is the topmost contract frame
SelfAllowedAdmits(ctx, id) ==
    \/ FramesOf(ctx, id) = {}
    \/ /\ Cardinality(FramesOf(ctx, id)) = 1
       /\ \A i \in FramesOf(ctx, id) : IsTopContractFrame(ctx, i)

\* C6: in mode SelfAllowed the re-entrancy check passes exactly when the target
\* id is in no non-HostFunction frame, or is in exactly one and that frame is the
\* topmost non-HostFunction frame
C6_SelfAllowedReentry ==
    /\ \A id \in ContractIds :
           reentry_check(Host, id, "SelfAllowed") <=> SelfAllowedAdmits(context, id)
    /\ (DispatchRefused /\ ret.mode = "SelfAllowed" /\ ~Reserved(ret.func)) =>
           (ret.res.err.msg = ReentryMsg <=> ~SelfAllowedAdmits(context, ret.id))

\* a contract that had called itself called itself again in mode SelfAllowed and
\* was refused: its id is in two frames
C6_Witness ==
    /\ DispatchRefused /\ ret.mode = "SelfAllowed" /\ ret.res.err.msg = ReentryMsg
    /\ Cardinality(FramesOf(context, ret.id)) = 2
    /\ IsTopContractFrame(context, Len(context))
    /\ Last(context).id = ret.id

\* ------------------------------------------------------------------ results of with_frame
\* with_frame has just returned after its closure ran
ClosureReturned == WithFrameReturned /\ ret.stage = "body"
ClosureSucceeded == ClosureReturned /\ ret.body.ok /\ ret.body.val.tag # "Error"
ClosureFailed == ClosureReturned /\ ~ret.body.ok

\* the state is the one in which the closure returned
AsClosureLeftIt == storage = ret.at_body.storage /\ events = ret.at_body.events

\* the frame was the only one on the stack and with_frame returned the failure of
\* maybe_emulate_authentication, which pop_frame calls when the stack is empty
ReturnedPopFailure == ret.entry.depth = 0 /\ ret.res = Err(AuthError)

DispatchReturned == pc = "ret" /\ ret.fn = "call_n_internal"

\* C9: the result of call_n_internal is the result of the target: a failure
\* while the fn_call or fn_return diagnostic is built never changes it and never
\* makes the call fail
C9_DiagnosticsNeverFailTheCall ==
    /\ (DispatchReturned /\ ret.stage \in {"body", "frame"}) => ret.res = ret.body
    /\ ~(DispatchReturned /\ ret.stage = "diag")

Unchanged(s) == s = Step(Host, Ok(VoidVal))

\* C10: at level None, fn_call_diagnostics, fn_return_diagnostics and
\* err_diagnostics return Ok and leave the Event Log, the Object Store and the
\* budget as they were, in any state of the frame stack
C10_NoneLevelIsNoOp ==
    diagnostic_level = "None" =>
        /\ \A id \in ContractIds : \A func \in Funcs :
               /\ \A args \in ArgLists : Unchanged(fn_call_diagnostics(Host, id, func, args))
               /\ \A v \in RetVals : Unchanged(fn_return_diagnostics(Host, id, func, v))
        /\ \A e \in {ContractError, PolicyError} : \A msg \in {"", ReentryMsg} :
               Unchanged(err_diagnostics(Host, e, msg, <<>>))
        /\ \A i \in DOMAIN events : events[i].kind # "StructuredDebug"
        /\ DispatchRefused =>
               /\ events = ret.entry.events
               /\ Len(objects) = ret.entry.objects
               /\ budget = ret.entry.budget

\* at level None, with two frames on the stack and an event in the log, a
\* dispatch was refused and the error built
C10_Witness ==
    /\ diagnostic_level = "None"
    /\ DispatchRefused
    /\ Len(context) >= 2
    /\ Len(events) > 0

\* ------------------------------------------------------------------ diagnostics at level Debug
\* C11: at level Debug every diagnostic emitter leaves the budget unchanged: all
\* objects built for the event, the one holding the current / calling contract
\* id included, are created inside the free-budget scope
C11_EmittersAreFree ==
    diagnostic_level = "Debug" =>
        /\ \A id \in ContractIds : \A func \in Funcs :
               /\ \A args \in ArgLists :
                      fn_call_diagnostics(Host, id, func, args).h.budget = budget
               /\ \A v \in RetVals :
                      fn_return_diagnostics(Host, id, func, v).h.budget = budget
        /\ \A e \in {ContractError, PolicyError} : \A msg \in {"", ReentryMsg} :
               err_diagnostics(Host, e, msg, <<>>).h.budget = budget

\* the emitter step r appended exactly one event to the log
AppendedOne(r) ==
    /\ r.res.ok
    /\ Len(r.h.events) = Len(events) + 1
    /\ SubSeq(r.h.events, 1, Len(events)) = events
\* the event appended by r is a diagnostic event whose topics are the sequence
\* object topics
HasTopics(r, topics) ==
    /\ Last(r.h.events).kind = "StructuredDebug"
    /\ Last(r.h.events).type = "Diagnostic"
    /\ Last(r.h.events).topics.tag = "Object"
    /\ visit_obj(r.h.objects, Last(r.h.events).topics.n) = VecObj(topics)
\* value v is the handle of an object of r's store that equals obj
RefersTo(r, v, obj) == v.tag = "Object" /\ visit_obj(r.h.objects, v.n) = obj

FnCallShape(r, id, func, args) ==
    /\ AppendedOne(r)
    /\ \E called \in {visit_obj(r.h.objects, Last(r.h.events).topics.n).vec[2]} :
           /\ HasTopics(r, <<SymbolVal("fn_call"), called, SymbolVal(func)>>)
           /\ RefersTo(r, called, BytesObj(id))
    /\ RefersTo(r, Last(r.h.events).data, VecObj(args))
FnReturnShape(r, func, v) ==
    /\ AppendedOne(r)
    /\ HasTopics(r, <<SymbolVal("fn_return"), SymbolVal(func)>>)
    /\ Last(r.h.events).data = v
ErrorShape(r, e, msg, args) ==
    /\ AppendedOne(r)
    /\ HasTopics(r, <<SymbolVal("error"), ErrorVal(ErrCode(e))>>)
    /\ Last(r.h.events).data.tag = "Object"
    /\ \E data \in {visit_obj(r.h.objects, Last(r.h.events).data.n)} :
           /\ data.kind = "Vec"
           /\ Len(data.vec) = 1 + Len(args)
           /\ RefersTo(r, data.vec[1], StringObj(msg))
           /\ SubSeq(data.vec, 2, Len(data.vec)) = args

\* C12: at level Debug each emitter call appends exactly one event of the
\* documented shape: fn_call has topics ["fn_call", called contract id, function
\* symbol] and data the arguments as a sequence; fn_return has topics
\* ["fn_return", function symbol] and data the return value; error has topics
\* ["error", error code] and data [message, args...]
C12_OneEventOfDocumentedShape ==
    diagnostic_level = "Debug" =>
        /\ \A id \in ContractIds : \A func \in Funcs :
               /\ \A args \in ArgLists :
                      FnCallShape(fn_call_diagnostics(Host, id, func, args), id, func, args)
               /\ \A v \in RetVals :
                      FnReturnShape(fn_return_diagnostics(Host, id, func, v), func, v)
        /\ \A e \in {ContractError, PolicyError} : \A msg \in {"", ReentryMsg} :
           \A args \in {<<>>, <<SymbolVal("f")>>} :
               ErrorShape(err_diagnostics(Host, e, msg, args), e, msg, args)

\* ------------------------------------------------------------------ traces of failed calls
\* call_n_internal has just returned a failure after the frame of the call was
\* popped with rollback
FailedCallRolledBack ==
    DispatchReturned /\ ret.stage = "body" /\ ~ret.res.ok /\ ret.popped = "rollback"

\* event ev is the fn_call event of a call of func in the contract id
IsFnCallEventOf(ev, id, func) ==
    /\ IsFnCallEvent(ev)
    /\ visit_obj(objects, ev.topics.n).vec[3] = SymbolVal(func)
    /\ visit_obj(objects, visit_obj(objects, ev.topics.n).vec[2].n) = BytesObj(id)

\* C13 as stated: with diagnostics on, when a dispatched call fails and its frame
\* is rolled back, every diagnostic event recorded for that call, its fn_call
\* event included, is absent from the Event Log once the dispatch has returned
C13_Original ==
    (diagnostic_level = "Debug" /\ FailedCallRolledBack) => events = ret.entry.events

\* C13: with diagnostics on, when a dispatched call fails and its frame is rolled
\* back, every diagnostic event recorded after the frame was pushed is absent
\* from the Event Log once the dispatch has returned; the fn_call event of the
\* call, recorded before the push, stays: the log is the log at the call followed
\* by that event
C13_FailedCallKeepsOnlyFnCall ==
    (diagnostic_level = "Debug" /\ FailedCallRolledBack) =>
        /\ Len(events) = Len(ret.entry.events) + 1
        /\ SubSeq(events, 1, Len(ret.entry.events)) = ret.entry.events
        /\ IsFnCallEventOf(Last(events), ret.id, ret.func)

\* with diagnostics on a call failed after its closure had left more events in
\* the log than remain
C13_Witness ==
    /\ diagnostic_level = "Debug"
    /\ FailedCallRolledBack
    /\ Len(ret.at_body.events) > Len(events)

\* ------------------------------------------------------------------ object store
\* the call the embedder made has just returned
TopLevelReturned ==
    pc = "ret" /\ Len(cs) = 0 /\ ret.fn \in {"with_frame", "call_n_internal"}

\* C14: after a failed top-level invocation the Object Store holds exactly the
\* objects it held before the invocation: the objects created during the failed
\* invocation are reverted together with the Storage Map
C14_FailedInvocationRevertsObjects ==
    (TopLevelReturned /\ ~ret.res.ok) => Len(objects) = ret.entry.objects

IsPrefix(s, t) == Len(s) <= Len(t) /\ s = SubSeq(t, 1, Len(s))

\* every change of the Event Log is an append at its end or a truncation to a
\* prefix, so the events that stay keep the order in which they were recorded
C16_LogChangesAtItsEnd ==
    [][IsPrefix(events, events') \/ IsPrefix(events', events)]_vars

\* pop_frame with the rollback point of the frame on top, from the current state
PopWithRollbackPoint(emu_ok) == pop_frame(Host, SomeRollbackPoint(TopAct.rp), emu_ok)

\* C16: the Event Log changes only by an append at its end or a truncation to a
\* prefix; after pop_frame with a rollback point rp the log is the first
\* rp.events entries of the log just before the pop, in their recording order
C16_PopTruncatesToRollbackPoint ==
    InBody =>
        \A emu_ok \in BOOLEAN : \E p \in {PopWithRollbackPoint(emu_ok)} :
            p.h.events = SubSeq(events, 1, TopAct.rp.events)

\* ------------------------------------------------------------------ reserved functions
\* a call of call_n_internal can be made in this state
CanDispatch == pc = "idle" \/ InBody

\* the event log of c is the current one, or the current one followed by one
\* error diagnostic for error e
LoggedAtMostTheError(c, e) ==
    \/ c.h.events = events
    \/ /\ Len(c.h.events) = Len(events) + 1
       /\ SubSeq(c.h.events, 1, Len(events)) = events
       /\ HasTopics(c, <<SymbolVal("error"), ErrorVal(e)>>)

\* the dispatch c was rejected for its reserved name, before the re-entrancy
\* check and before any frame was pushed
RejectedAsReserved(c) ==
    /\ c.stage = "policy"
    /\ ~c.res.ok /\ ErrCode(c.res.err) = PolicyError /\ c.res.err.msg = ReservedMsg
    /\ c.h.context = context
    /\ c.h.storage = storage

\* the claim as written: the rejection leaves the Event Log unchanged
C17_Original ==
    CanDispatch =>
        \A id \in ContractIds : \A func \in {f \in Funcs : Reserved(f)} :
        \A args \in ArgLists : \A mode \in ReentryModes :
        \E c \in {call_n_internal_enter(Host, id, func, args, mode, FALSE, TRUE)} :
            RejectedAsReserved(c) /\ c.h.events = events

\* C17: a dispatch with internal_host_call = false to a function whose name
\* starts with "__" returns the reserved-function error before the re-entrancy
\* check, before the fn_call diagnostic and before any frame is pushed: the stack
\* and the Storage Map are unchanged, and the Event Log is unchanged at level
\* None and gains at most the error diagnostic of this rejection at level Debug;
\* the same dispatch with internal_host_call = true is not rejected for its name
C17_ReservedRejectedFirst ==
    /\ CanDispatch =>
           \A id \in ContractIds : \A func \in {f \in Funcs : Reserved(f)} :
           \A args \in ArgLists : \A mode \in ReentryModes : \A auth_ok \in BOOLEAN :
               /\ \E c \in {call_n_internal_enter(Host, id, func, args, mode, FALSE, auth_ok)} :
                      /\ RejectedAsReserved(c)
                      /\ IF is_debug(Host) THEN LoggedAtMostTheError(c, PolicyError)
                         ELSE c.h.events = events
               /\ \E c \in {call_n_internal_enter(Host, id, func, args, mode, TRUE, auth_ok)} :
                      c.res.ok \/ c.res.err.msg # ReservedMsg
    /\ (DispatchRefused /\ ret.res.err.msg = ReservedMsg) =>
           /\ Reserved(ret.func)
           /\ Len(context) = ret.entry.depth
           /\ storage = ret.entry.storage
           /\ NoFnCallSince(ret.entry)
           /\ Len(events) <= Len(ret.entry.events) + 1
           /\ ~is_debug(Host) => events = ret.entry.events

\* at level Debug a dispatch to a reserved function whose target is already on
\* the stack has been rejected for its name, and the log has gained the error
\* diagnostic
C17_Witness ==
    /\ DispatchRefused /\ ret.res.err.msg = ReservedMsg
    /\ ret.mode = "Prohibited"
    /\ FramesOf(context, ret.id) # {}
    /\ diagnostic_level = "Debug"
    /\ Len(events) = Len(ret.entry.events) + 1

\* ------------------------------------------------------------------ error taxonomy
\* get_current_contract_id_internal has just returned
QueryReturned == pc = "ret" /\ ret.fn = "get_current_contract_id_internal"

MissingValueError == ScError("Context", "MissingValue", "")

\* the errors of the two dispatch policies are of type Context, code InvalidAction
PolicyRefusalsAreInvalidAction ==
    (DispatchRefused /\ ret.stage = "policy") =>
        /\ ~ret.res.ok
        /\ ErrCode(ret.res.err) = PolicyError
        /\ ret.res.err.msg \in {ReservedMsg, ReentryMsg}

\* the claim as written: reading the current frame or the current contract id on
\* an empty stack is reported as (Context, InvalidAction) as well
C18_Original ==
    /\ PolicyRefusalsAreInvalidAction
    /\ Len(context) = 0 =>
           /\ ErrCode(with_current_frame(Host).res.err) = PolicyError
           /\ ErrCode(get_current_contract_id_internal(Host).res.err) = PolicyError

\* C18: each policy violation is reported as an error, never as a default
\* value: calling a reserved function from outside and a re-entrancy violation
\* with error type Context and code InvalidAction, reading the current frame or
\* the current contract id while the stack is empty with error type Context and
\* code MissingValue
C18_PolicyViolationsAreErrors ==
    /\ PolicyRefusalsAreInvalidAction
    /\ Len(context) = 0 =>
           /\ \E f \in {with_current_frame(Host)} :
                  ~f.res.ok /\ ErrCode(f.res.err) = MissingValueError
           /\ \E o \in {get_current_contract_id_opt_internal(Host)} :
                  ~o.res.ok /\ ErrCode(o.res.err) = MissingValueError
           /\ \E q \in {get_current_contract_id_internal(Host)} :
                  ~q.res.ok /\ ErrCode(q.res.err) = MissingValueError
    /\ (QueryReturned /\ Len(context) = 0) =>
           /\ ~ret.res.ok
           /\ ErrCode(ret.res.err) = MissingValueError
           /\ ret.res.err.msg = NoContractRunning

\* the current contract id was read while the stack was empty
C18_Witness == QueryReturned /\ Len(context) = 0 /\ ~ret.res.ok

\* ------------------------------------------------------------------ native contracts
\* the code of a registered native contract is running in the frame on top
InTestContract == InBody /\ TopAct.kind = "TestContract"

Panics == {out \in TestOutcomes : out.kind = "panic"}
NoFunction == {out \in TestOutcomes : out.kind = "none"}

\* with_frame for the TestContract frame on top, from the moment the native
\* function ended with out
NativeExit(out, emu_ok) ==
    Let(test_contract_closure(Host, TopAct.id, TopAct.func, out), LAMBDA c :
        with_frame_exit(c.h, TopAct.start_depth, TopAct.rp, c.res, emu_ok))

\* how with_frame pops that frame
NativePop(out, emu_ok) ==
    Let(test_contract_closure(Host, TopAct.id, TopAct.func, out), LAMBDA c :
        how_popped(c.h, TopAct.rp, c.res, emu_ok))

\* w left the Storage Map and the length of the Event Log as the rollback point
\* of the frame on top recorded them
RolledBackToTop(w) ==
    w.h.storage = TopAct.rp.storage /\ Len(w.h.events) = TopAct.rp.events

\* C19: when a registered native contract function panics during a dispatch,
\* the panic does not escape: with_frame returns Err, the TestContract frame is
\* popped with rollback, and the error is the one recorded in the frame's error
\* cell if one was recorded, otherwise the unknown error
C19_PanicBecomesError ==
    InTestContract =>
        \A out \in Panics : \A emu_ok \in BOOLEAN :
        \E w \in {NativeExit(out, emu_ok)} :
            /\ ~w.res.ok /\ ~IsPanic(w.res)
            /\ ErrCode(w.res.err) = IF out.cell # NoError THEN out.cell ELSE ErrorUNKNOWN
            /\ NativePop(out, emu_ok) = "rollback"
            /\ Len(w.h.context) = Len(context) - 1
            /\ RolledBackToTop(w)

\* C20: when the registered native contract has no function for the requested
\* symbol, the dispatch returns the 'calling unknown contract function' error
\* (Context, MissingValue) instead of a value, and the TestContract frame pushed
\* for it is popped with rollback
C20_UnknownFunctionIsMissingValue ==
    InTestContract =>
        \A out \in NoFunction : \A emu_ok \in BOOLEAN :
        \E w \in {NativeExit(out, emu_ok)} :
            /\ ~w.res.ok
            /\ w.res.err = ScError("Context", "MissingValue", "calling unknown contract function")
            /\ NativePop(out, emu_ok) = "rollback"
            /\ Len(w.h.context) = Len(context) - 1
            /\ RolledBackToTop(w)

\* ------------------------------------------------------------------ guard charge
\* with_frame has returned the failure of its GuardFrame charge
GuardChargeFailed ==
    WithFrameReturned /\ ret.stage = "frame" /\ ErrCode(ret.res.err) = BudgetError

\* C21: when the GuardFrame charge at the start of with_frame fails with
\* resource exhaustion, with_frame returns that error unchanged, pushes no frame
\* and does not invoke the body: the frame stack, the Storage Map and the Event
\* Log are unchanged
C21_GuardChargeFailureIsClean ==
    /\ (CanDispatch /\ budget = 0) =>
           \A kind \in {"TestContract", "Token", "HostFunction"} : \A id \in ContractIds :
           \A func \in Funcs : \A args \in ArgLists : \A auth_ok \in BOOLEAN :
           \E w \in {with_frame_enter(Host, Frame(kind, id, func, args), auth_ok)} :
               /\ w.res = charge_budget(Host, 1).res
               /\ w.res = Err(BudgetError)
               /\ w.h.context = context
               /\ w.h.storage = storage
               /\ w.h.events = events
    /\ GuardChargeFailed =>
           /\ ret.res = Err(BudgetError)
           /\ ret.body = ret.res
           /\ Len(context) = ret.entry.depth
           /\ storage = ret.entry.storage
           /\ events = ret.entry.events

\* inside a frame, a nested with_frame has returned the failure of its guard
\* charge
C21_Witness == GuardChargeFailed /\ Len(context) > 0 /\ budget = 0

\* ------------------------------------------------------------------ borrowed manager
\* with_frame has returned after a rollback of a frame that was pushed while the
\* authorization manager was borrowed
BorrowedFrameRolledBack ==
    /\ WithFrameReturned /\ ret.stage = "body" /\ ret.popped = "rollback"
    /\ ret.entry.auth.borrowed

\* C22: when the Authorization Manager is already borrowed as push_frame runs,
\* the manager is not notified, the frame is still pushed and the rollback point
\* carries no authorization snapshot; a later rollback of that frame restores the
\* Storage Map and the Event Log and leaves the manager's state untouched
C22_BorrowedManagerIsSkipped ==
    /\ (CanDispatch /\ auth.borrowed) =>
           \A kind \in {"TestContract", "Token"} : \A id \in ContractIds :
           \A func \in Funcs : \A args \in ArgLists : \A auth_ok \in BOOLEAN :
           \E p \in {push_frame(Host, Frame(kind, id, func, args), auth_ok)} :
               /\ p.res.ok
               /\ p.h.auth = auth
               /\ p.h.context = Append(context, Frame(kind, id, func, args))
               /\ ~p.rp.auth.some
               /\ p.rp.storage = storage /\ p.rp.events = Len(events)
    /\ (InBody /\ ~TopAct.rp.auth.some) =>
           \A emu_ok \in BOOLEAN : \E p \in {PopWithRollbackPoint(emu_ok)} :
               /\ p.res.ok
               /\ p.h.storage = TopAct.rp.storage
               /\ p.h.events = SubSeq(events, 1, TopAct.rp.events)
               /\ p.h.auth = auth
    /\ BorrowedFrameRolledBack =>
           /\ storage = ret.entry.storage
           /\ Len(events) = Len(ret.entry.events)
           /\ auth = ret.at_body.auth
           /\ auth = ret.entry.auth

\* a frame pushed while the manager was borrowed has written to the Storage Map
\* and has been rolled back; the manager holds the authorization it recorded
\* before the push
C22_Witness ==
    /\ BorrowedFrameRolledBack
    /\ ret.at_body.storage # storage
    /\ auth.trackers > 0

\* ------------------------------------------------------------------ authentication hook
\* the two ways with_frame pops the frame on top
PopArguments == {NoRollbackPoint, SomeRollbackPoint(TopAct.rp)}

\* C23: pop_frame invokes maybe_emulate_authentication if and only if the frame
\* stack is empty after the pop, on the commit path and on the rollback path
\* alike: the pop of the last frame returns the failure of the hook, and the pop
\* of a frame above another one does not depend on the hook
C23_HookOnlyOnEmptyStack ==
    /\ InBody =>
           \A orp \in PopArguments :
               /\ Len(context) = 1 => pop_frame(Host, orp, FALSE).res = Err(AuthError)
               /\ Len(context) > 1 =>
                      /\ pop_frame(Host, orp, FALSE) = pop_frame(Host, orp, TRUE)
                      /\ pop_frame(Host, orp, FALSE).res.ok
    /\ (WithFrameReturned /\ ret.popped = "failed") =>
           /\ Len(context) = 0
           /\ ret.res = Err(AuthError)

\* the pop of the last frame has returned the failure of the hook, after the
\* frame of a nested call had been popped
C23_Witness ==
    /\ WithFrameReturned /\ ret.popped = "failed"
    /\ ret.inner
    /\ ret.body.ok

\* ------------------------------------------------------------------ push/pop pairing
\* the with_frame activations among the first n activations
WithFramesIn(n) == {i \in 1..n : cs[i].fn = "with_frame"}

\* C24: popping an empty frame stack is a fatal abort, not a returned error,
\* and it is unreachable: when frames are pushed and popped only through
\* with_frame, every frame on the stack belongs to a with_frame in progress, so
\* pop_frame never runs on an empty stack and the depth assertion at the end of
\* with_frame never fails
C24_PopNeverOnEmptyStack ==
    /\ \A emu_ok \in BOOLEAN :
           IsPanic(pop_frame([Host EXCEPT !.context = <<>>], NoRollbackPoint, emu_ok).res)
    /\ pc # "abort"
    /\ Len(context) = Cardinality(WithFramesIn(Len(cs)))
    /\ \A i \in WithFramesIn(Len(cs)) : cs[i].start_depth = Cardinality(WithFramesIn(i - 1))
    /\ InBody =>
           \A res \in TokenResults : \A emu_ok \in BOOLEAN :
           \E w \in {with_frame_exit(Host, TopAct.start_depth, TopAct.rp, res, emu_ok)} :
               /\ ~IsPanic(w.res)
               /\ Len(w.h.context) = TopAct.start_depth

\* the outermost frame has been popped with rollback after the frame of a nested
\* call had been pushed and popped
C24_Witness ==
    /\ WithFrameReturned /\ ret.popped = "rollback"
    /\ ret.entry.depth = 0
    /\ ret.inner

\* ------------------------------------------------------------------ order of a dispatch
Returns == {out \in TestOutcomes : out.kind = "some"}

\* with_frame has returned Ok to the call_n_internal that dispatched to kind
PoppedFor(kind) ==
    /\ pc = "ret" /\ Len(cs) > 0
    /\ TopAct.fn = "call_n_internal" /\ TopAct.kind = kind
    /\ WithFrameReturned /\ ret.res.ok

\* the claim as written for the native path: the closure of the TestContract
\* frame records no fn_return event, the event is recorded after the pop
C25_Original ==
    (InTestContract /\ is_debug(Host)) =>
        \A out \in Returns :
            test_contract_closure(Host, TopAct.id, TopAct.func, out).h.events = events

\* the checks of call_n_internal, then the fn_call diagnostic, then the push
\* with the capture of the rollback point, then the target
EntersInOrder(c, id, mode) ==
    /\ c.stage = "policy" =>
           /\ c.h.context = context
           /\ \A i \in (Len(events) + 1)..Len(c.h.events) :
                  visit_obj(c.h.objects, c.h.events[i].topics.n).vec[1] # SymbolVal("fn_call")
    /\ c.stage = "entered" =>
           /\ reentry_check(Host, id, mode)
           /\ c.at_frame.events = IF is_debug(Host) THEN SubSeq(c.h.events, 1, Len(events) + 1)
                                  ELSE events
           /\ c.rp.events = Len(c.at_frame.events)
           /\ c.rp.storage = storage
           /\ c.h.events = c.at_frame.events
           /\ Len(c.h.context) = Len(context) + 1
           /\ Last(c.h.context).id = id

\* C25: every dispatch makes the re-entrancy check against the existing stack,
\* then records the fn_call diagnostic, then pushes the frame and captures the
\* rollback point, then invokes the target, then pops the frame; on the
\* built-in path the fn_return diagnostic is recorded after the pop, on the
\* native test-contract path it is recorded by the closure of the frame, before
\* the pop, and nothing is recorded after it
C25_OrderOfADispatch ==
    /\ CanDispatch =>
           \A id \in ContractIds : \A args \in ArgLists : \A mode \in ReentryModes :
           \E c \in {call_n_internal_enter(Host, id, "f", args, mode, FALSE, TRUE)} :
               EntersInOrder(c, id, mode)
    /\ (InTestContract /\ is_debug(Host)) =>
           \A out \in Returns :
           \E c \in {test_contract_closure(Host, TopAct.id, TopAct.func, out)} :
               /\ FnReturnShape(c, TopAct.func, out.val)
               /\ c.h.context = context
    /\ PoppedFor("TestContract") =>
           call_n_internal_tail(Host, "TestContract", TopAct.id, TopAct.func, ret.res).h = Host
    /\ (PoppedFor("Token") /\ is_debug(Host)) =>
           /\ Len(context) = TopAct.entry.depth
           /\ FnReturnShape(call_n_internal_tail(Host, "Token", TopAct.id, TopAct.func, ret.res),
                            TopAct.func, ret.res.val)

\* at level Debug a dispatch to the native contract has returned a value: its
\* fn_return event was recorded while its frame was on the stack
C25_Witness ==
    /\ PoppedFor("TestContract")
    /\ is_debug(Host)
    /\ ret.popped = "commit"
    /\ Len(events) > 0
    /\ HasTopics([h |-> Host], <<SymbolVal("fn_return"), SymbolVal(TopAct.func)>>)
    /\ events = ret.at_body.events

\* ------------------------------------------------------------------ attribution of fn_call
\* the with_frame activations that call_n_internal started
DispatchedFrames == {i \in 2..Len(cs) : cs[i].fn = "with_frame" /\ cs[i - 1].fn = "call_n_internal"}

\* event ev carries the contract id of the frame at depth d of the stack, and
\* none when there is no such frame or it is a HostFunction frame
AttributedTo(ev, d) ==
    IF d = 0 \/ context[d].kind = "HostFunction"
    THEN ev.contract_id = VoidVal
    ELSE /\ ev.contract_id.tag = "Object"
         /\ visit_obj(objects, ev.contract_id.n) = BytesObj(context[d].id)

\* C26: at level Debug the fn_call event of a dispatch carries the contract id
\* of the frame on top of the stack at dispatch time (the caller), and carries
\* no contract id when that frame is a HostFunction frame or the stack is
\* empty; it is recorded before the callee's frame is pushed, so it precedes
\* every event recorded inside the callee's frame
C26_FnCallCarriesTheCaller ==
    is_debug(Host) =>
        /\ \A id \in ContractIds : \A args \in ArgLists :
           \E r \in {fn_call_diagnostics(Host, id, "f", args)} :
               r.res.ok =>
                   /\ AppendedOne(r)
                   /\ r.h.context = context
                   /\ IF Len(context) = 0 \/ Last(context).kind = "HostFunction"
                      THEN Last(r.h.events).contract_id = VoidVal
                      ELSE RefersTo(r, Last(r.h.events).contract_id,
                                    BytesObj(Last(context).id))
        /\ \A i \in DispatchedFrames :
               /\ cs[i].rp.events >= 1
               /\ cs[i].rp.events <= Len(events)
               /\ IsFnCallEventOf(events[cs[i].rp.events], cs[i].id, cs[i].func)
               /\ AttributedTo(events[cs[i].rp.events], cs[i].start_depth)

\* at level Debug a contract called another one, whose frame has recorded an
\* event after the fn_call event that carries the caller's id
C26_Witness ==
    /\ InBody /\ is_debug(Host)
    /\ Len(context) = 2
    /\ context[1].kind # "HostFunction"
    /\ Len(events) > TopAct.rp.events
    /\ events[TopAct.rp.events].contract_id # VoidVal

\* ------------------------------------------------------------------ fn_return
\* event ev is a fn_return event of function func of contract id
IsFnReturnEventOf(ev, id, func) ==
    /\ ev.kind = "StructuredDebug" /\ ev.type = "Diagnostic"
    /\ ev.topics.tag = "Object"
    /\ visit_obj(objects, ev.topics.n) = VecObj(<<SymbolVal("fn_return"), SymbolVal(func)>>)
    /\ ev.contract_id.tag = "Object"
    /\ visit_obj(objects, ev.contract_id.n) = BytesObj(id)

\* the events recorded since the state e
Since(e) == (Len(e.events) + 1)..Len(events)

\* C27: at level Debug, when call_n_internal returns, the Event Log holds a
\* fn_return event for that dispatch, carrying the returned value and the called
\* contract's id, if and only if the dispatch returned Ok; a dispatch that fails,
\* or whose result value is escalated to a failure, leaves no fn_return event
\* for it in the log
C27_FnReturnIffOk ==
    (DispatchReturned /\ is_debug(Host)) =>
        IF ret.res.ok
        THEN /\ Since(ret.entry) # {}
             /\ IsFnReturnEventOf(Last(events), ret.id, ret.func)
             /\ Last(events).data = ret.res.val
        ELSE \A i \in Since(ret.entry) : ~IsFnReturnEventOf(events[i], ret.id, ret.func)

\* ------------------------------------------------------------------ push then pop
\* the host state h has the Storage Map, the Event Log length and, when the
\* rollback point of the frame on top holds a snapshot, the authorization
\* manager's state of the moment before that frame was pushed
AsBeforePush(h) ==
    /\ h.storage = TopAct.entry.storage
    /\ Len(h.events) = Len(TopAct.entry.events)
    /\ TopAct.rp.auth.some => h.auth = TopAct.entry.auth

\* C28: push_frame followed by pop_frame with the rollback point it returned
\* brings the host back to the state it had before the frame was pushed: the
\* Storage Map, the Event Log length and, when a snapshot was captured, the
\* Authorization Manager's state (its record of pushed frames included) equal
\* their values immediately before push_frame
C28_PushThenPopRestores ==
    InBody => \A emu_ok \in BOOLEAN : AsBeforePush(PopWithRollbackPoint(emu_ok).h)

\* ------------------------------------------------------------------ absorbed failures
\* a with_frame called by the code of an enclosing frame has just returned a failure
NestedFrameFailed == WithFrameReturned /\ ret.entry.depth > 0 /\ ~ret.res.ok

\* with_frame has just returned for a frame whose closure went on after a call
\* of its own had entered a frame and failed, and then returned success (a value
\* that is not an error value)
AbsorbedAndSucceeded == ClosureSucceeded /\ ret.absorbed

\* C29: if a nested with_frame fails and the enclosing closure absorbs the
\* failure and returns success, only the inner frame's mutations are reverted:
\* when the inner with_frame returns, the Storage Map and the Event Log are the
\* ones the enclosing closure had made before it, and after the outer with_frame
\* they hold everything the Storage Map and the Event Log held when the
\* enclosing closure returned
C29_OnlyTheInnerFrameIsReverted ==
    /\ NestedFrameFailed =>
           (storage = ret.entry.storage /\ events = ret.entry.events)
    /\ AbsorbedAndSucceeded => AsClosureLeftIt

\* the enclosing closure wrote a ledger entry and recorded an event around a call
\* that failed after its frame had been entered; it returned a value and the
\* outer with_frame returned with both still in place
C29_Witness ==
    /\ AbsorbedAndSucceeded
    /\ ~ret.inner
    /\ ret.res.ok
    /\ storage # ret.entry.storage
    /\ Len(events) > Len(ret.entry.events)

\* ------------------------------------------------------------------ rollback points
\* the activations of with_frame in progress, as positions in cs from the bottom
\* of the stack to the top
ActiveFrames == WithFramesIn(Len(cs))

\* C30: in every reachable state the Event Log lengths held by the rollback
\* points of the active frames are non-decreasing from the bottom of the stack
\* to the top and none exceeds the current length of the Event Log, so a
\* rollback never asks to truncate the log to more events than it holds
C30_RollbackLengthsAreOrdered ==
    /\ \A i, j \in ActiveFrames : i < j => cs[i].rp.events <= cs[j].rp.events
    /\ \A i \in ActiveFrames : cs[i].rp.events <= Len(events)
    /\ InBody => \A emu_ok \in BOOLEAN :
           LET p == PopWithRollbackPoint(emu_ok)
           IN  p.res.ok => Len(p.h.events) = TopAct.rp.events

\* two frames are active, the inner one pushed after the outer one had recorded
\* events, and the log has grown since the inner one was pushed
C30_Witness ==
    /\ \E i, j \in ActiveFrames : i < j /\ cs[i].rp.events < cs[j].rp.events
    /\ InBody
    /\ TopAct.rp.events < Len(events)

\* ------------------------------------------------------------------ shape of the stack
\* in the stack ctx every contract id is in at most two contract frames, and two
\* frames of one id have no contract frame between them
AtMostTwiceAndAdjacent(ctx) ==
    \A id \in ContractIds :
        /\ Cardinality(FramesOf(ctx, id)) <= 2
        /\ \A i, j \in FramesOf(ctx, id) :
               i < j => \A k \in ContractFrames(ctx) : ~(i < k /\ k < j)

\* in the stack ctx every contract id is in at most one contract frame
AtMostOnce(ctx) == \A id \in ContractIds : Cardinality(FramesOf(ctx, id)) <= 1

\* C31: when contract frames are pushed only by dispatches that never use mode
\* Allowed, a contract id is in at most two non-HostFunction frames of the
\* stack, adjacent once HostFunction frames are ignored, and with mode
\* Prohibited only it is in at most one: the empty stack has both shapes, a pop
\* keeps them, and a dispatch in mode Prohibited or SelfAllowed that enters its
\* frame keeps the first, one in mode Prohibited keeps the second
C31_NoAllowedBoundsReentry ==
    /\ AtMostTwiceAndAdjacent(<<>>) /\ AtMostOnce(<<>>)
    /\ Len(context) > 0 =>
           /\ AtMostTwiceAndAdjacent(context) => AtMostTwiceAndAdjacent(Front(context))
           /\ AtMostOnce(context) => AtMostOnce(Front(context))
    /\ CanDispatch =>
           \A id \in ContractIds : \A func \in Funcs : \A args \in ArgLists :
           \A mode \in ReentryModes \ {"Allowed"} : \A internal \in BOOLEAN :
           \E c \in {call_n_internal_enter(Host, id, func, args, mode, internal, TRUE)} :
               c.stage = "entered" =>
                   /\ c.h.context = Append(context, Last(c.h.context))
                   /\ Last(c.h.context).kind # "HostFunction" /\ Last(c.h.context).id = id
                   /\ AtMostTwiceAndAdjacent(context) => AtMostTwiceAndAdjacent(c.h.context)
                   /\ (mode = "Prohibited" /\ AtMostOnce(context)) => AtMostOnce(c.h.context)
    /\ (DispatchRefused /\ ret.mode # "Allowed" /\ ret.res.err.msg = ReentryMsg) =>
           /\ FramesOf(context, ret.id) # {}
           /\ Len(context) = ret.entry.depth

\* the stack holds two adjacent frames of one contract and a dispatch to that
\* contract in mode SelfAllowed has been refused as a re-entry: no third frame
C31_Witness ==
    /\ DispatchRefused /\ ret.mode = "SelfAllowed" /\ ret.res.err.msg = ReentryMsg
    /\ Len(context) = 2
    /\ context[1].id = ret.id /\ context[2].id = ret.id
    /\ AtMostTwiceAndAdjacent(context) /\ ~AtMostOnce(context)

\* ------------------------------------------------------------------ invoke_functions
\* Host::invoke_functions has just returned to the embedder
InvokeFunctionsReturned == pc = "ret" /\ ret.fn = "invoke_functions"

\* the HostFunction frames of the stack
HostFunctionFrames == {i \in DOMAIN context : context[i].kind = "HostFunction"}

\* C32: invoke_functions, called with an empty stack, runs the host functions
\* one at a time in list order, each inside its own HostFunction frame that
\* starts and ends with an empty stack; it stops at the first function that
\* fails and returns that error with no results, and what the functions before
\* it committed is not rolled back
C32_InvokeFunctionsStopsAtFirstFailure ==
    /\ HostFunctionFrames \subseteq {1}
    /\ \A i \in DOMAIN cs :
           (cs[i].fn = "with_frame" /\ cs[i].kind = "HostFunction") =>
               i = 1 /\ cs[i].start_depth = 0 /\ cs[i].entry.depth = 0
    /\ HostFunctionReturned =>
           /\ Len(context) = 0
           /\ ret.entry.depth = 0
           /\ Len(invocation.res) + invocation.host_fns + 1 <= MaxHostFns
    /\ invocation # NoInvocation =>
           \/ HostFunctionReturned \/ InvokeFunctionsReturned
           \/ HostFunctionFrames = {1}
    /\ InvokeFunctionsReturned =>
           /\ Len(context) = 0
           /\ ret.res.ok =>
                  /\ invocation.host_fns = 0
                  /\ ret.kind = "HostFunction" /\ ret.func = "InvokeContract" =>
                         /\ Len(invocation.res) >= 1
                         /\ Last(invocation.res) = ret.res.val
           /\ ~ret.res.ok =>
                  /\ invocation.res = <<>>
                  /\ \/ storage = ret.entry.storage /\ events = ret.entry.events
                     \/ ReturnedPopFailure /\ AsClosureLeftIt

\* the first host function wrote a ledger entry and returned a value, the second
\* failed: invoke_functions returned its error with no results, and the ledger
\* entry of the first is still there
C32_Witness ==
    /\ InvokeFunctionsReturned
    /\ ~ret.res.ok
    /\ invocation.res = <<>>
    /\ ret.entry.storage # EmptyStorage
    /\ storage = ret.entry.storage
    /\ ret.entry.budget < MaxBudget

\* ------------------------------------------------------------------ notifications of the manager
\* the frames in progress whose push the authorization manager was notified of:
\* push_frame takes the manager's snapshot exactly when it notifies it
NotifiedFrames == {i \in ActiveFrames : cs[i].rp.auth.some}

\* a with_frame is in progress on top of the activations and its frame is the
\* next one to be popped
FrameOnTop == pc \in {"body", "ret"} /\ Len(cs) > 0 /\ TopAct.fn = "with_frame"

\* C33: for every frame the authorization manager receives the pop notification
\* if and only if it received the push notification for that frame, so after
\* any sequence of completed with_frame calls, failed or successful, the number
\* of frames the manager has recorded equals the number it had recorded at the
\* start
C33_ManagerFramesAreBalanced ==
    /\ auth.frames = Cardinality(NotifiedFrames)
    /\ FrameOnTop =>
           /\ TopAct.rp.auth.some <=> ~auth.borrowed
           /\ \A orp \in PopArguments : \A emu_ok \in BOOLEAN :
              \E p \in {pop_frame(Host, orp, emu_ok)} :
                  p.h.auth.frames = IF TopAct.rp.auth.some THEN auth.frames - 1
                                    ELSE auth.frames
    /\ WithFrameReturned => auth.frames = ret.entry.auth.frames
    /\ pc = "idle" => auth.frames = 0

\* the frame of a call made while the manager was borrowed has been popped, with
\* commit, under a frame the manager had been notified of: its record still
\* holds that one frame
C33_Witness ==
    /\ WithFrameReturned /\ ret.stage = "body" /\ ret.popped = "commit"
    /\ ret.entry.auth.borrowed
    /\ auth.frames = 1
    /\ Len(context) = 1
====
